---- MODULE Spec2Model ----
(***************************************************************************)
(* Model of Streamlit/optimaldiscount_dashboard.py: one run of main() over *)
(* an uploaded CSV file: load_and_prepare_data, perform_discount_analysis, *)
(* the selected view and the "Save Analysis" button.                       *)
(*                                                                         *)
(* Units.  discount and profit_margin are fractions in the CSV; the model  *)
(* writes them in hundredths (0.05 is 5, 1.0 is 100), so the bin edges     *)
(* [0, 0.1, 0.2, 0.3, 0.4, 1.0] are 0, 10, 20, 30, 40, 100.  Sums are      *)
(* exact integers and means and ratios are exact fractions: floating-point *)
(* rounding is outside the model.                                          *)
(***************************************************************************)
EXTENDS Integers, Sequences, FiniteSets, TLC

VARIABLES uploaded_file, pc, data, discount_analysis, selected_option,
          optimal_range, rendered, saved_csv, error

vars == <<uploaded_file, pc, data, discount_analysis, selected_option,
          optimal_range, rendered, saved_csv, error>>

\* Largest number of data rows of an uploaded file.
MaxRows == 2

(***************************************************************************)
(* Cells.  A CSV cell is empty, a numeric literal or other text.  After    *)
(* read_csv a cell is NaN, a number, or a Python str (a column holding any *)
(* non-numeric text stays of dtype object, and then its numeric literals   *)
(* stay strings as well).                                                  *)
(***************************************************************************)
Empty == [k |-> "empty", v |-> 0]
Text == [k |-> "text", v |-> 0]
Lit(n) == [k |-> "lit", v |-> n]

NaN == [k |-> "nan", v |-> 0]
Num(n) == [k |-> "num", v |-> n]
StrLit(n) == [k |-> "str_lit", v |-> n]
StrTxt == [k |-> "str_txt", v |-> 0]

IsNaN(c) == c.k = "nan"
IsNum(c) == c.k = "num"
IsStr(c) == c.k \in {"str_lit", "str_txt"}

\* The columns main() selects (line 11).
RequiredColumns == {"discount", "profit", "sales", "profit_margin"}

NoFile == [present |-> FALSE, columns |-> {}, rows |-> <<>>]

\* A data row of a CSV file with the four columns and one more, "region".
CsvRow(d, p, s, m) ==
    [discount |-> d, profit |-> p, sales |-> s, profit_margin |-> m, region |-> Text]

\* The row under a header that has only the columns cols.
Restrict(r, cols) == [c \in cols |-> r[c]]
CsvFile(cols, rs) == [present |-> TRUE, columns |-> cols, rows |-> rs]

\* pd.read_csv: per-column type inference.
IsObjectColumn(file, c) == \E i \in 1..Len(file.rows) : file.rows[i][c].k = "text"

ReadCsvCell(file, i, c) ==
    LET cell == file.rows[i][c]
    IN  CASE cell.k = "empty" -> NaN
          [] cell.k = "text" -> StrTxt
          [] OTHER -> IF IsObjectColumn(file, c) THEN StrLit(cell.v) ELSE Num(cell.v)

\* The DataFrame read_csv returns: the header's columns, and one row per data
\* line, labelled by its position (the default RangeIndex).
ReadCsv(file) ==
    [columns |-> file.columns,
     rows |-> [i \in 1..Len(file.rows) |->
                 [index |-> i,
                  cells |-> [c \in file.columns |-> ReadCsvCell(file, i, c)]]]]

\* pd.to_numeric(..., errors='coerce')
ToNumeric(c) ==
    CASE c.k = "num" -> c
      [] c.k = "str_lit" -> Num(c.v)
      [] OTHER -> NaN

\* NaN * 100 is NaN.
Times100(c) == IF IsNum(c) THEN Num(c.v * 100) ELSE c

\* Mutant: a frame with any other column is refused too.
HasExactlyRequiredColumns(df) == df.columns = RequiredColumns

\* data[['discount', 'profit', 'sales', 'profit_margin']] raises KeyError
\* unless every listed column is in the frame.
HasRequiredColumns(df) == RequiredColumns \subseteq df.columns

\* Line 11: the four columns, in a copy; any other column is gone.
SelectColumns(df) ==
    [i \in 1..Len(df.rows) |->
       [index |-> df.rows[i].index,
        discount |-> df.rows[i].cells["discount"],
        profit |-> df.rows[i].cells["profit"],
        sales |-> df.rows[i].cells["sales"],
        profit_margin |-> df.rows[i].cells["profit_margin"]]]

\* Lines 12-13: discount and profit_margin are coerced, profit and sales are not.
Coerce(rows) ==
    [i \in 1..Len(rows) |->
       [rows[i] EXCEPT !.discount = ToNumeric(@),
                       !.profit_margin = Times100(ToNumeric(@))]]

\* Mutant: profit_margin listed in the subset as well.
DropnaKeepsWithMargin(r) ==
    ~IsNaN(r.discount) /\ ~IsNaN(r.profit) /\ ~IsNaN(r.sales) /\ ~IsNaN(r.profit_margin)

\* Line 14: dropna(subset=['discount', 'profit', 'sales']).
DropnaKeeps(r) == ~IsNaN(r.discount) /\ ~IsNaN(r.profit) /\ ~IsNaN(r.sales)

Dropna(rows) == SelectSeq(rows, DropnaKeeps)

\* Lines 17-18.
bins == <<0, 10, 20, 30, 40, 100>>
labels == <<"0-10%", "10-20%", "20-30%", "30-40%", "40%+">>

\* Mutant: right=False, the intervals [bins[i], bins[i+1]).
PdCutLeftClosed(v) ==
    IF \E i \in 1..Len(labels) : bins[i] <= v /\ v < bins[i + 1]
    THEN (CHOOSE i \in 1..Len(labels) : bins[i] <= v /\ v < bins[i + 1]) - 1
    ELSE -1

\* pd.cut(x, bins, labels) with the defaults right=True, include_lowest=False:
\* the category code of the interval (bins[i], bins[i+1]] holding v, and -1
\* (NaN) when no interval holds it.
PdCut(v) ==
    IF \E i \in 1..Len(labels) : bins[i] < v /\ v <= bins[i + 1]
    THEN (CHOOSE i \in 1..Len(labels) : bins[i] < v /\ v <= bins[i + 1]) - 1
    ELSE -1

\* Categorical.astype(str): the label of the code, and 'nan' for NaN.
AsTypeStr(code) == IF code = -1 THEN "nan" ELSE labels[code + 1]

\* Line 19.
Categorize(rows) ==
    [i \in 1..Len(rows) |->
       [index |-> rows[i].index,
        discount |-> rows[i].discount,
        profit |-> rows[i].profit,
        sales |-> rows[i].sales,
        profit_margin |-> rows[i].profit_margin,
        discount_range |-> AsTypeStr(PdCut(rows[i].discount.v))]]

\* load_and_prepare_data, after the column check.
PrepareRows(file) == Categorize(Dropna(Coerce(SelectColumns(ReadCsv(file)))))

Unset == [set |-> FALSE, rows |-> <<>>]
Frame(rs) == [set |-> TRUE, rows |-> rs]
NoLabel == [k |-> "unset", s |-> ""]

(***************************************************************************)
(* main()                                                                  *)
(***************************************************************************)
\* The run starts with no file uploaded, or with a CSV file of at most MaxRows
\* data rows drawn from rowset under one of the given headers.
InitWith(rowset, headers) ==
    /\ \E n \in -1..MaxRows :
         IF n = -1
         THEN uploaded_file = NoFile
         ELSE \E cols \in headers : \E rs \in [1..n -> rowset] :
                  uploaded_file = CsvFile(cols, [i \in 1..n |-> Restrict(rs[i], cols)])
    /\ pc = "main"
    /\ data = Unset
    /\ discount_analysis = Unset
    /\ selected_option = ""
    /\ optimal_range = NoLabel
    /\ rendered = ""
    /\ saved_csv = Unset
    /\ error = ""

\* Lines 43-44 and 104-105.
FileUploader ==
    /\ pc = "main"
    /\ IF uploaded_file.present
       THEN pc' = "load" /\ UNCHANGED rendered
       ELSE pc' = "done" /\ rendered' = "warning"
    /\ UNCHANGED <<uploaded_file, data, discount_analysis, selected_option,
                   optimal_range, saved_csv, error>>

\* Line 46: load_and_prepare_data(uploaded_file); an exception ends the run.
LoadAndPrepareData ==
    /\ pc = "load"
    /\ IF HasRequiredColumns(ReadCsv(uploaded_file))
       THEN /\ data' = Frame(PrepareRows(uploaded_file))
            /\ pc' = "analyze"
            /\ UNCHANGED error
       ELSE /\ error' = "KeyError"
            /\ pc' = "failed"
            /\ UNCHANGED data
    /\ UNCHANGED <<uploaded_file, discount_analysis, selected_option,
                   optimal_range, rendered, saved_csv>>

(***************************************************************************)
(* perform_discount_analysis                                               *)
(***************************************************************************)
\* discount_range is a column of Python strings, so groupby sorts its keys as
\* strings: by code point, a proper prefix first.
CodePoints(s) ==
    CASE s = "0-10%" -> <<48, 45, 49, 48, 37>>
      [] s = "10-20%" -> <<49, 48, 45, 50, 48, 37>>
      [] s = "20-30%" -> <<50, 48, 45, 51, 48, 37>>
      [] s = "30-40%" -> <<51, 48, 45, 52, 48, 37>>
      [] s = "40%+" -> <<52, 48, 37, 43>>
      [] s = "nan" -> <<110, 97, 110>>

RECURSIVE LexLess(_, _)
LexLess(a, b) ==
    IF b = <<>> THEN FALSE
    ELSE IF a = <<>> THEN TRUE
    ELSE IF Head(a) # Head(b) THEN Head(a) < Head(b)
    ELSE LexLess(Tail(a), Tail(b))

StrLess(s, t) == LexLess(CodePoints(s), CodePoints(t))

\* Mutant: the labels left categorical, so that the NaN key is dropped.
GroupKeysDropNa(rows) == {rows[i].discount_range : i \in 1..Len(rows)} \ {"nan"}

\* groupby('discount_range'): the distinct values of the column (dropna=True
\* drops NaN keys only, and 'nan' is a string), in sorted order (sort=True).
GroupKeys(rows) == {rows[i].discount_range : i \in 1..Len(rows)}

RECURSIVE SortedKeys(_)
SortedKeys(S) ==
    IF S = {} THEN <<>>
    ELSE LET m == CHOOSE k \in S : \A o \in S \ {k} : StrLess(k, o)
         IN  <<m>> \o SortedKeys(S \ {m})

InGroup(r, key) == r.discount_range = key

\* 'sum': numbers add up; Python strings are concatenated.
StrCat == [k |-> "str_cat", v |-> 0]

\* Mutant: 'first' in place of 'sum'.
AggFirst(cells) ==
    IF \E i \in 1..Len(cells) : IsStr(cells[i]) THEN StrCat ELSE Num(Head(cells).v)

RECURSIVE SumNums(_)
SumNums(cells) == IF cells = <<>> THEN 0 ELSE Head(cells).v + SumNums(Tail(cells))

AggSum(cells) ==
    IF \E i \in 1..Len(cells) : IsStr(cells[i]) THEN StrCat ELSE Num(SumNums(cells))

\* 'mean' skips NaN: the sum and the count of the values that are not NaN; a
\* count of 0 is the mean NaN.
NotNaN(c) == ~IsNaN(c)

\* Mutant: NaN counted as a value of 0 (the mean over all rows of the group).
AggMeanAllRows(cells) ==
    [sum |-> SumNums(SelectSeq(cells, NotNaN)), cnt |-> Len(cells)]

AggMean(cells) ==
    LET present == SelectSeq(cells, NotNaN)
    IN  [sum |-> SumNums(present), cnt |-> Len(present)]

Column(rows, col) == [i \in 1..Len(rows) |-> rows[i][col]]

\* Lines 27-31: one row per key.
AggRow(rows, key) ==
    LET InKey(r) == InGroup(r, key)
        members == SelectSeq(rows, InKey)
    IN  [discount_range |-> key,
         sales |-> AggSum(Column(members, "sales")),
         profit |-> AggSum(Column(members, "profit")),
         profit_margin |-> AggMean(Column(members, "profit_margin"))]

GroupByAgg(rows) ==
    LET keys == SortedKeys(GroupKeys(rows))
    IN  [i \in 1..Len(keys) |-> AggRow(rows, keys[i])]

\* Line 34: profit / sales of a str raises TypeError.
RaisesTypeError(agg) ==
    \E i \in 1..Len(agg) : ~IsNum(agg[i].profit) \/ ~IsNum(agg[i].sales)

\* (profit / sales) * 100 on numbers: the fraction n / d, and for sales = 0
\* numpy's inf, -inf or NaN.
Ratio(p, s) ==
    IF s # 0 THEN [k |-> "fin", n |-> p * 100, d |-> s]
    ELSE IF p > 0 THEN [k |-> "inf", n |-> 0, d |-> 1]
    ELSE IF p < 0 THEN [k |-> "-inf", n |-> 0, d |-> 1]
    ELSE [k |-> "nan", n |-> 0, d |-> 1]

WithRatio(agg) ==
    [i \in 1..Len(agg) |->
       [discount_range |-> agg[i].discount_range,
        sales |-> agg[i].sales,
        profit |-> agg[i].profit,
        profit_margin |-> agg[i].profit_margin,
        profit_to_sales_ratio |-> Ratio(agg[i].profit.v, agg[i].sales.v)]]

\* Line 49.
PerformDiscountAnalysis ==
    /\ pc = "analyze"
    /\ LET agg == GroupByAgg(data.rows)
       IN  IF RaisesTypeError(agg)
           THEN /\ error' = "TypeError"
                /\ pc' = "failed"
                /\ UNCHANGED discount_analysis
           ELSE /\ discount_analysis' = Frame(WithRatio(agg))
                /\ pc' = "select"
                /\ UNCHANGED error
    /\ UNCHANGED <<uploaded_file, data, selected_option, optimal_range,
                   rendered, saved_csv>>

(***************************************************************************)
(* The views (lines 53-98) and the save button (lines 101-103)             *)
(***************************************************************************)
Options == {"Overview", "Discount Analysis", "Recommendations"}

Label(s) == [k |-> "label", s |-> s]
NaNLabel == [k |-> "NaN", s |-> ""]
Raise(e) == [k |-> "raise", s |-> e]

\* Means a and b that are not NaN: a < b.
MeanLess(a, b) == a.sum * b.cnt < b.sum * a.cnt

HasMean(agg, i) == agg[i].profit_margin.cnt > 0

\* Series.idxmax() with skipna=True: the index label of the first occurrence of
\* the largest value that is not NaN.
IdxMaxRow(agg) ==
    CHOOSE i \in 1..Len(agg) :
        /\ HasMean(agg, i)
        /\ \A j \in 1..Len(agg) :
               HasMean(agg, j) =>
                   /\ ~MeanLess(agg[i].profit_margin, agg[j].profit_margin)
                   /\ j < i => MeanLess(agg[j].profit_margin, agg[i].profit_margin)

\* What line 91 can produce.  An empty series raises ValueError.  A series of
\* NaN only gives NaN in the pandas releases that still return it and raises
\* ValueError in those that do not: both are outcomes of the code as written.
IdxMax(agg) ==
    IF Len(agg) = 0 THEN {Raise("ValueError")}
    ELSE IF \A i \in 1..Len(agg) : ~HasMean(agg, i)
         THEN {Raise("ValueError"), NaNLabel}
    ELSE {Label(agg[IdxMaxRow(agg)].discount_range)}

\* The two bar charts of lines 71-86: the plotting backend draws a series that
\* has rows; what it does with an empty one depends on its release.
PlotBars(agg) == IF Len(agg) = 0 THEN {"drawn", "raise"} ELSE {"drawn"}

SelectView ==
    /\ pc = "select"
    /\ \E option \in Options :
         /\ selected_option' = option
         /\ CASE option = "Overview" ->
                   /\ rendered' = "Overview"
                   /\ pc' = "button"
                   /\ UNCHANGED <<optimal_range, error>>
              [] option = "Discount Analysis" ->
                   \E plot \in PlotBars(discount_analysis.rows) :
                       IF plot = "drawn"
                       THEN /\ rendered' = "Discount Analysis"
                            /\ pc' = "button"
                            /\ UNCHANGED <<optimal_range, error>>
                       ELSE /\ error' = "PlotError"
                            /\ pc' = "failed"
                            /\ UNCHANGED <<optimal_range, rendered>>
              [] option = "Recommendations" ->
                   \E r \in IdxMax(discount_analysis.rows) :
                       IF r.k = "raise"
                       THEN /\ error' = r.s
                            /\ pc' = "failed"
                            /\ UNCHANGED <<optimal_range, rendered>>
                       ELSE /\ optimal_range' = r
                            /\ rendered' = "Recommendations"
                            /\ pc' = "button"
                            /\ UNCHANGED error
    /\ UNCHANGED <<uploaded_file, data, discount_analysis, saved_csv>>

\* Lines 101-103: st.button is True in the run the click causes.
SaveButton ==
    /\ pc = "button"
    /\ \E clicked \in BOOLEAN :
         saved_csv' = IF clicked THEN discount_analysis ELSE saved_csv
    /\ pc' = "done"
    /\ UNCHANGED <<uploaded_file, data, discount_analysis, selected_option,
                   optimal_range, rendered, error>>

(***************************************************************************)
(* The uploads each specification starts from                              *)
(***************************************************************************)
\* The full header, one with a column main() does not use, and headers that
\* lack a required column.
Headers ==
    {RequiredColumns, RequiredColumns \cup {"region"}} \cup
    {RequiredColumns \ {c} : c \in RequiredColumns} \cup
    {{"region"}}

MainRows ==
    {CsvRow(Lit(5), Lit(2), Lit(4), Lit(10)),
     CsvRow(Lit(15), Lit(2), Lit(4), Lit(10)),
     CsvRow(Lit(45), Lit(1), Lit(0), Text),
     CsvRow(Lit(5), Text, Lit(0), Lit(10)),
     CsvRow(Text, Lit(2), Lit(4), Lit(10)),
     CsvRow(Lit(0), Lit(2), Lit(4), Lit(30)),
     CsvRow(Lit(5), Lit(2), Text, Lit(10)),
     CsvRow(Lit(15), Empty, Lit(4), Lit(10))}

Init == InitWith(MainRows, Headers)

Next ==
    \/ FileUploader
    \/ LoadAndPrepareData
    \/ PerformDiscountAnalysis
    \/ SelectView
    \/ SaveButton

Spec == Init /\ [][Next]_vars

\* Preparation alone, over files that exercise every bin edge and every kind
\* of cell in every column.
DiscountValues == {-1, 0, 1, 5, 10, 11, 20, 21, 30, 31, 40, 41, 100, 101}

PrepRows ==
    {CsvRow(Lit(d), Lit(1), Lit(1), Lit(10)) : d \in DiscountValues} \cup
    {CsvRow(d, p, s, Lit(10)) :
        d \in {Empty, Text, Lit(5)}, p \in {Empty, Text, Lit(1)},
        s \in {Empty, Text, Lit(1)}} \cup
    {CsvRow(d, Lit(1), Lit(1), m) : d \in {Text, Lit(5)}, m \in {Empty, Text}}

InitPrep == InitWith(PrepRows, {RequiredColumns})

NextPrep == FileUploader \/ LoadAndPrepareData

SpecPrep == InitPrep /\ [][NextPrep]_vars

\* Preparation and aggregation, over files whose rows share and split groups.
AggRows ==
    {CsvRow(Lit(d), Lit(p), Lit(s), m) :
        d \in {0, 5, 15, 45}, p \in {-1, 2}, s \in {0, 3}, m \in {Empty, Lit(1), Lit(3)}} \cup
    {CsvRow(Lit(5), Text, Lit(3), Lit(1)), CsvRow(Lit(10), Lit(2), Text, Lit(1))}

InitAgg == InitWith(AggRows, {RequiredColumns})

NextAgg == FileUploader \/ LoadAndPrepareData \/ PerformDiscountAnalysis

SpecAgg == InitAgg /\ [][NextAgg]_vars

(***************************************************************************)
(* Claims                                                                  *)
(***************************************************************************)
RawRow(i) == uploaded_file.rows[i]
Prepared == data.rows
Aggregate == discount_analysis.rows

\* The rows of the uploaded file that the filter is said to keep.
Survives(i) ==
    /\ RawRow(i).discount.k = "lit"
    /\ RawRow(i).profit.k # "empty"
    /\ RawRow(i).sales.k # "empty"

ExpectedRange(d) ==
    CASE 0 < d /\ d <= 10 -> "0-10%"
      [] 10 < d /\ d <= 20 -> "10-20%"
      [] 20 < d /\ d <= 30 -> "20-30%"
      [] 30 < d /\ d <= 40 -> "30-40%"
      [] 40 < d /\ d <= 100 -> "40%+"
      [] OTHER -> "nan"

\* C1: every prepared row's discount_range is the label of the interval its own
\* discount lies in ((0,0.1], (0.1,0.2], (0.2,0.3], (0.3,0.4], (0.4,1.0]) and
\* the text 'nan' for a discount <= 0 or > 1; bucketing removes no row that
\* passed the filter.
C1_DiscountRange ==
    data.set =>
        /\ \A j \in 1..Len(Prepared) :
               Prepared[j].discount_range = ExpectedRange(Prepared[j].discount.v)
        /\ Len(Prepared) = Cardinality({i \in 1..Len(uploaded_file.rows) : Survives(i)})

C1_Witness ==
    /\ data.set
    /\ \E j, k \in 1..Len(Prepared) :
           /\ Prepared[j].discount.v = 0 /\ Prepared[j].discount_range = "nan"
           /\ Prepared[k].discount.v = 10 /\ Prepared[k].discount_range = "0-10%"

\* A cell of the prepared table holds what the CSV cell held.
SameValue(raw, cell) ==
    \/ raw.k = "lit" /\ cell.k \in {"num", "str_lit"} /\ cell.v = raw.v
    \/ raw.k = "text" /\ cell.k = "str_txt"

\* C2: a row is kept exactly when its discount is a number and its profit and
\* sales are not missing; kept rows keep their order and their discount, profit
\* and sales; a kept row whose profit_margin is missing or not a number has a
\* missing profit_margin.
C2_RowFilter ==
    data.set =>
        /\ \A i \in 1..Len(uploaded_file.rows) :
               Survives(i) <=> \E j \in 1..Len(Prepared) : Prepared[j].index = i
        /\ \A j, k \in 1..Len(Prepared) : j < k => Prepared[j].index < Prepared[k].index
        /\ \A j \in 1..Len(Prepared) :
               LET raw == RawRow(Prepared[j].index)
               IN  /\ Prepared[j].discount = Num(raw.discount.v)
                   /\ SameValue(raw.profit, Prepared[j].profit)
                   /\ SameValue(raw.sales, Prepared[j].sales)
                   /\ raw.profit_margin.k # "lit" => IsNaN(Prepared[j].profit_margin)

C2_Witness ==
    /\ data.set
    /\ Len(uploaded_file.rows) = 2
    /\ RawRow(1).discount.k = "text"
    /\ RawRow(2).profit_margin.k = "text"
    /\ Len(Prepared) = 1
    /\ Prepared[1].index = 2
    /\ IsNaN(Prepared[1].profit_margin)

\* C3: preparation is said to drop every row whose discount, profit or sales is
\* present but not a number, so that no prepared row carries such a value and
\* the aggregation never fails on one.
C3_NonNumericDropped ==
    /\ data.set =>
           \A j \in 1..Len(Prepared) :
               IsNum(Prepared[j].discount) /\ IsNum(Prepared[j].profit) /\ IsNum(Prepared[j].sales)
    /\ error # "TypeError"

\* C4: with an empty aggregate the Recommendations view is said to end in an
\* explicit "no recommendation" outcome, never in an error.
C4_EmptyRecommendation ==
    (discount_analysis.set /\ Len(Aggregate) = 0 /\ selected_option = "Recommendations") =>
        /\ error = ""
        /\ rendered = "Recommendations"
        /\ optimal_range.k # "label"

IntervalOrder == <<"0-10%", "10-20%", "20-30%", "30-40%", "40%+">>

IntervalRank(s) == IF \E n \in 1..5 : IntervalOrder[n] = s
                   THEN CHOOSE n \in 1..5 : IntervalOrder[n] = s
                   ELSE 6

IsMaximum(g) ==
    /\ HasMean(Aggregate, g)
    /\ \A h \in 1..Len(Aggregate) :
           HasMean(Aggregate, h) =>
               ~MeanLess(Aggregate[g].profit_margin, Aggregate[h].profit_margin)

\* C5: for a non-empty aggregate the recommended label is said to be a group
\* whose avg_profit_margin is the maximum over the groups, the first such group
\* in the order 0-10%, 10-20%, 20-30%, 30-40%, 40%+ when several share it.
C5_RecommendsMaximum ==
    (discount_analysis.set /\ Len(Aggregate) > 0 /\ selected_option = "Recommendations") =>
        /\ error = ""
        /\ optimal_range.k = "label"
        /\ \E g \in 1..Len(Aggregate) :
               /\ Aggregate[g].discount_range = optimal_range.s
               /\ IsMaximum(g)
               /\ \A h \in 1..Len(Aggregate) :
                      IsMaximum(h) =>
                          IntervalRank(Aggregate[g].discount_range)
                              <= IntervalRank(Aggregate[h].discount_range)

\* The sum of column col (of numbers) over the rows of a table.
RECURSIVE Total(_, _)
Total(rows, col) ==
    IF rows = <<>> THEN 0 ELSE Head(rows)[col].v + Total(Tail(rows), col)

\* The prepared rows carrying a label, by position.
Members(label) == {j \in 1..Len(Prepared) : Prepared[j].discount_range = label}

\* The sum of column col (of numbers) over the prepared rows at positions S.
RECURSIVE TotalAt(_, _)
TotalAt(S, col) ==
    IF S = {} THEN 0
    ELSE LET j == CHOOSE x \in S : TRUE
         IN  Prepared[j][col].v + TotalAt(S \ {j}, col)

\* C6: the groups partition the prepared rows: the total_sales of the groups
\* add up to the sales of all prepared rows, the total_profit to their profit,
\* and every prepared row, unmapped ones included, is in exactly one group.
C6_Partition ==
    discount_analysis.set =>
        /\ Total(Aggregate, "sales") = Total(Prepared, "sales")
        /\ Total(Aggregate, "profit") = Total(Prepared, "profit")
        /\ \A j \in 1..Len(Prepared) :
               Cardinality({g \in 1..Len(Aggregate) :
                   Aggregate[g].discount_range = Prepared[j].discount_range}) = 1

C6_Witness ==
    /\ discount_analysis.set
    /\ Len(Prepared) = 2
    /\ Len(Aggregate) = 2
    /\ Aggregate[2].discount_range = "nan"
    /\ Total(Prepared, "sales") > 0

\* The members of a group whose profit_margin is not missing.
WithMargin(label) == {j \in Members(label) : IsNum(Prepared[j].profit_margin)}

\* The profit_margin cell of the CSV row a prepared row comes from, times 100.
ScaledMargin(j) == RawRow(Prepared[j].index).profit_margin.v * 100

RECURSIVE TotalScaledMargin(_)
TotalScaledMargin(S) ==
    IF S = {} THEN 0
    ELSE LET j == CHOOSE x \in S : TRUE
         IN  ScaledMargin(j) + TotalScaledMargin(S \ {j})

\* C7: a group's avg_profit_margin is the mean of the x100 profit_margin of its
\* members that have one, so it lies between the least and the greatest of
\* them; members without one still count in total_sales and total_profit.
C7_MeanMargin ==
    discount_analysis.set =>
        \A g \in 1..Len(Aggregate) :
            LET label == Aggregate[g].discount_range
                mean == Aggregate[g].profit_margin
                some == WithMargin(label)
            IN  /\ mean.cnt = Cardinality(some)
                /\ mean.sum = TotalScaledMargin(some)
                /\ \A j \in some : RawRow(Prepared[j].index).profit_margin.k = "lit"
                /\ some # {} =>
                       /\ \E j \in some : \A o \in some : ScaledMargin(j) <= ScaledMargin(o)
                                                      /\ ScaledMargin(j) * mean.cnt <= mean.sum
                       /\ \E j \in some : \A o \in some : ScaledMargin(o) <= ScaledMargin(j)
                                                      /\ mean.sum <= ScaledMargin(j) * mean.cnt
                /\ Aggregate[g].sales.v = TotalAt(Members(label), "sales")
                /\ Aggregate[g].profit.v = TotalAt(Members(label), "profit")

C7_Witness ==
    /\ discount_analysis.set
    /\ \E g \in 1..Len(Aggregate) :
           /\ Aggregate[g].profit_margin.cnt = 1
           /\ Cardinality(Members(Aggregate[g].discount_range)) = 2
           /\ Aggregate[g].sales.v = 6
           /\ Aggregate[g].profit_margin.sum = 300

SixLabels == {"0-10%", "10-20%", "20-30%", "30-40%", "40%+", "nan"}

\* C8: the aggregate has exactly one row for each discount_range value that
\* occurs in the prepared table, 'nan' included, and none for a bucket that
\* has no prepared row.
C8_OneRowPerLabel ==
    discount_analysis.set =>
        /\ \A g \in 1..Len(Aggregate) : Aggregate[g].discount_range \in SixLabels
        /\ \A label \in SixLabels :
               Cardinality({g \in 1..Len(Aggregate) : Aggregate[g].discount_range = label})
                   = IF Members(label) # {} THEN 1 ELSE 0

C8_Witness ==
    /\ discount_analysis.set
    /\ Len(Prepared) = 2
    /\ Members("nan") # {}
    /\ Members("40%+") # {}
    /\ Len(Aggregate) = 2

\* The labels whose group has numeric sales adding up to 0.
ZeroSales(label) ==
    /\ Members(label) # {}
    /\ \A j \in Members(label) : IsNum(Prepared[j].sales)
    /\ TotalAt(Members(label), "sales") = 0

\* C9: the ratio of a group with non-zero total_sales is total_profit /
\* total_sales x 100, and a group whose total_sales is 0 is said not to crash
\* the pipeline: the aggregate is returned and holds that group.
C9_ZeroSales ==
    /\ discount_analysis.set =>
           \A g \in 1..Len(Aggregate) :
               Aggregate[g].sales.v # 0 =>
                   /\ Aggregate[g].profit_to_sales_ratio.k = "fin"
                   /\ Aggregate[g].profit_to_sales_ratio.n * Aggregate[g].sales.v
                          = Aggregate[g].profit.v * 100 * Aggregate[g].profit_to_sales_ratio.d
    /\ \A label \in SixLabels :
           (data.set /\ pc # "analyze" /\ ZeroSales(label)) =>
               /\ error # "TypeError"
               /\ discount_analysis.set
               /\ \E g \in 1..Len(Aggregate) : Aggregate[g].discount_range = label

PreparedFields ==
    {"index", "discount", "profit", "sales", "profit_margin", "discount_range"}

\* C10: an upload lacking a required column fails in load_and_prepare_data with
\* a schema error (KeyError) and the run ends there: no prepared table, no
\* aggregate, no view, no export.  With the four columns present, any other
\* column is dropped and causes no error.
C10_SchemaError ==
    (uploaded_file.present /\ pc \notin {"main", "load"}) =>
        IF RequiredColumns \subseteq uploaded_file.columns
        THEN /\ error # "KeyError"
             /\ data.set
             /\ \A j \in 1..Len(Prepared) : DOMAIN Prepared[j] = PreparedFields
        ELSE /\ error = "KeyError"
             /\ pc = "failed"
             /\ data = Unset
             /\ discount_analysis = Unset
             /\ rendered = ""
             /\ saved_csv = Unset

C10_Witness ==
    /\ error = "KeyError"
    /\ pc = "failed"
    /\ "profit" \notin uploaded_file.columns
    /\ "discount" \in uploaded_file.columns
    /\ Len(uploaded_file.rows) = 2

====
